---- MODULE Spec2Model ----
(***************************************************************************)
(* Model of the request/response pipeline of bitbucket-server-rs           *)
(* (src/src/client.rs): Client::get, Client::post, process_response and    *)
(* make_api_response, with the transport (reqwest) and the JSON decoder    *)
(* (serde_json) as the environment.                                        *)
(*                                                                         *)
(* Strings are sequences of tokens.  A response body is a sequence over    *)
(* BodyChars: " " is JSON whitespace, "B", "C" and "P" each stand for one  *)
(* complete JSON document that has the required fields of BuildStatus,     *)
(* PullRequestChanges and PullRequestPostPayload respectively, and "x" is  *)
(* a character that starts no JSON value.  "U" is the document "B" with    *)
(* the state string "INPROGRESS", which names no BuildStatusState variant, *)
(* and "M" is "B" with none of the optional keys of BuildStatus.           *)
(***************************************************************************)
EXTENDS Integers, Sequences, FiniteSets, TLC

\* ---------------------------------------------------------------- bounds
MaxBodyLen == 2
NumSends == 1

Sends == 1..NumSends

\* ---------------------------------------------------------------- inputs
BodyChars == {" ", "B", "C", "P", "x"}
Texts == UNION {[1..n -> BodyChars] : n \in 0..MaxBodyLen}

\* Status codes a reqwest::StatusCode can hold (100..999), sampled at the
\* edges of every class the match in process_response distinguishes.
Statuses == {199, 200, 204, 299, 300, 400, 401, 403, 404, 499, 500, 599, 600}

\* The three classes of status that each have an arm of their own.
Is2xx(st) == st \in 200..299
Is4xx(st) == st \in 400..499
Is5xx(st) == st \in 500..599

\* The implementers of the ApiRequest trait, by the verb their send() calls
\* with Self as the type parameter.
GetRequests == {"BuildStatusGet", "PullRequestChangesGet"}
PostRequests == {"PullRequestPost"}
ApiRequests == GetRequests \cup PostRequests

\* type Output of each implementer.
Output(T) ==
    CASE T = "BuildStatusGet"        -> "BuildStatus"
      [] T = "PullRequestChangesGet" -> "PullRequestChanges"
      [] T = "PullRequestPost"       -> "PullRequestPostPayload"

\* The JSON document token that carries the required fields of a type.
DocOf(type) ==
    CASE type = "BuildStatus"            -> "B"
      [] type = "PullRequestChanges"     -> "C"
      [] type = "PullRequestPostPayload" -> "P"

\* Values new() may be given: a base path with and without a scheme, a token
\* with and without a character that is illegal in a header value.
BasePaths == {<<"http://", "host", "/rest">>, <<"host", "/rest">>}
ApiTokens == {<<"TOKEN">>, <<"TO", "\n", "KEN">>}
Uris == {<<"api/latest/projects">>}
PostBodies == {<<"{}">>}
ParamMaps == {{}}

\* ---------------------------------------------------------------- ApiError / ApiResponse
NoOutcome == [kind |-> "none", status |-> 0, text |-> <<>>, value |-> ""]
OkSome(v) == [kind |-> "OkSome", status |-> 0, text |-> <<>>, value |-> v]
OkNone == [kind |-> "OkNone", status |-> 0, text |-> <<>>, value |-> ""]
RequestError == [kind |-> "RequestError", status |-> 0, text |-> <<>>, value |-> ""]
ResponseError == [kind |-> "ResponseError", status |-> 0, text |-> <<>>, value |-> ""]
Unauthorized == [kind |-> "Unauthorized", status |-> 0, text |-> <<>>, value |-> ""]
HttpClientError(st, t) == [kind |-> "HttpClientError", status |-> st, text |-> t, value |-> ""]
HttpServerError(st, t) == [kind |-> "HttpServerError", status |-> st, text |-> t, value |-> ""]
UnexpectedResponse(st, t) == [kind |-> "UnexpectedResponse", status |-> st, text |-> t, value |-> ""]
DeserializationError(m) == [kind |-> "DeserializationError", status |-> 0, text |-> m, value |-> ""]

\* The closed set of kinds of ApiResponse<T>: Ok(Some), Ok(None), Err(ApiError).
OutcomeKinds ==
    {"OkSome", "OkNone", "RequestError", "ResponseError", "Unauthorized",
     "HttpClientError", "HttpServerError", "UnexpectedResponse",
     "DeserializationError"}

\* ---------------------------------------------------------------- state
VARIABLES
    client,       \* the Client: base_path, api_token, http_client
    pc,           \* per send: idle, execute, text, done, panicked, abandoned
    api_request,  \* per send: the type parameter T of get::<T> / post::<T>
    req,          \* per send: the reqwest::Request handed to the transport
    status,       \* per send: response.status(), 0 while no response
    read,         \* per send: the result of response.text().await
    outcome,      \* per send: the value returned by get / post
    calls,        \* per send: calls made so far (execute, text, from_str, match)
    endpoint,     \* per send: the endpoint request (or its builder) it is sent from
    serde         \* a payload value or a JSON document on its way through serde

vars == <<client, pc, api_request, req, status, read, outcome, calls, endpoint, serde>>

NotRead == [st |-> "none", text |-> <<>>]
ReadErr == [st |-> "err", text |-> <<>>]
ReadOk(t) == [st |-> "ok", text |-> t]

NoReq == [method |-> "", url |-> <<>>, authorization |-> <<>>,
          content_type |-> "", query |-> {}, body |-> <<>>, transport |-> ""]
NoCalls == [execute |-> 0, text |-> 0, from_str |-> 0, classify |-> 0]

\* Option<T>: None and Some(v).
None == <<>>
Some(v) == <<v>>

\* The fields of the endpoint request structs and of their builders.
FieldNames ==
    {"client", "project_key", "repository_slug", "commit_id", "pull_request_id",
     "key", "since_id", "change_scope", "until_id", "start", "limit",
     "with_comments", "pull_request", "build_status"}

\* Nothing is being serialised or deserialised outside a send.
NoSerde == [type |-> "", origin |-> "none", value |-> None, json |-> None,
            back |-> None, error |-> ""]

\* No endpoint request exists: get/post were called directly.
NoEndpoint ==
    [api |-> "", stage |-> "none", error |-> "",
     fields |-> [f \in FieldNames |-> None]]


\* ---------------------------------------------------------------- helpers
\* StatusCode::is_success / is_client_error / is_server_error
is_success(st) == 200 <= st /\ st < 300
is_client_error(st) == 400 <= st /\ st < 500
is_server_error(st) == 500 <= st /\ st < 600

UNAUTHORIZED == 401
FORBIDDEN == 403
NO_CONTENT == 204

\* Result<String>::unwrap_or_default(): the text, or the empty String.
unwrap_or_default(rd) == IF rd.st = "ok" THEN rd.text ELSE <<>>

\* format!("Unexpected Response [{}]: {}", response.status(), text); the
\* Display of a StatusCode starts with its number.
UnexpectedText(st, t) == <<"Unexpected Response [", ToString(st), "]: ">> \o t

\* haystack contains needle as a contiguous run.
Contains(hay, needle) ==
    \E i \in 0..(Len(hay) - Len(needle)) :
        SubSeq(hay, i + 1, i + Len(needle)) = needle

\* JSON whitespace in front of a value is skipped by the parser.
RECURSIVE SkipWs(_)
SkipWs(s) == IF s # <<>> /\ Head(s) = " " THEN SkipWs(Tail(s)) ELSE s

\* The variants of BuildStatusState and the string serde renames each to.
BuildStatusStates == {"SUCCESSFUL", "FAILED", "IN_PROGRESS", "CANCELLED", "UNKNOWN"}

\* The "state" string of the two BuildStatus document tokens.
StateOf(doc) ==
    CASE doc = "B" -> "SUCCESSFUL"
      [] doc = "U" -> "INPROGRESS"

\* The derived Deserialize of BuildStatusState: the string of a listed
\* variant, else the error "unknown variant".
BuildStatusState_deserialize(str) ==
    [ok |-> str \in BuildStatusStates, value |-> str]

\* ---------------------------------------------------------------- serde
\* A field of a payload struct as its serde attributes describe it: the Rust
\* name, the JSON key (rename / rename_all = "camelCase"), the kind of its
\* value, whether it is an Option (always with skip_serializing_if =
\* "Option::is_none" in these structs), whether it goes through
\* with = "ts_seconds_option", and whether it has #[serde(default)].
Field(name, key, kind, optional, with_ts, default) ==
    [name |-> name, key |-> key, kind |-> kind, optional |-> optional,
     with_ts |-> with_ts, default |-> default]

\* The payload types that derive Serialize and Deserialize.
SerdeTypes ==
    {"BuildStatus", "BuildStatusPostPayload", "PullRequestChanges",
     "PullRequestPostPayload"}

\* The fields of each payload struct, in declaration order.
Fields(type) ==
    CASE type = "BuildStatus" ->
           <<Field("key", "key", "string", FALSE, FALSE, FALSE),
             Field("state", "state", "state", FALSE, FALSE, FALSE),
             Field("url", "url", "string", FALSE, FALSE, FALSE),
             Field("build_number", "buildNumber", "string", TRUE, FALSE, FALSE),
             Field("updated_date", "updatedDate", "timestamp", TRUE, TRUE, FALSE),
             Field("created_date", "createdDate", "timestamp", TRUE, TRUE, FALSE),
             Field("description", "description", "string", TRUE, FALSE, FALSE),
             Field("duration", "duration", "u64", TRUE, FALSE, FALSE),
             Field("name", "name", "string", TRUE, FALSE, FALSE),
             Field("parent", "parent", "string", TRUE, FALSE, FALSE),
             Field("reference", "ref", "string", TRUE, FALSE, FALSE),
             Field("test_results", "testResults", "object", TRUE, FALSE, FALSE)>>
      [] type = "BuildStatusPostPayload" ->
           <<Field("key", "key", "string", FALSE, FALSE, FALSE),
             Field("state", "state", "state", FALSE, FALSE, FALSE),
             Field("url", "url", "string", FALSE, FALSE, FALSE),
             Field("build_number", "buildNumber", "string", TRUE, FALSE, FALSE),
             Field("date_added", "dateAdded", "timestamp", TRUE, TRUE, TRUE),
             Field("description", "description", "string", TRUE, FALSE, FALSE),
             Field("duration", "duration", "u64", TRUE, FALSE, FALSE),
             Field("name", "name", "string", TRUE, FALSE, FALSE),
             Field("parent", "parent", "string", TRUE, FALSE, FALSE),
             Field("reference", "ref", "string", TRUE, FALSE, FALSE),
             Field("test_results", "testResults", "object", TRUE, FALSE, FALSE)>>
      [] type = "PullRequestChanges" ->
           <<Field("from_hash", "fromHash", "string", FALSE, FALSE, FALSE),
             Field("to_hash", "toHash", "string", FALSE, FALSE, FALSE),
             Field("values", "values", "object", TRUE, FALSE, FALSE)>>
      [] type = "PullRequestPostPayload" ->
           <<Field("title", "title", "string", FALSE, FALSE, FALSE),
             Field("description", "description", "string", TRUE, FALSE, FALSE),
             Field("from_ref", "fromRef", "object", FALSE, FALSE, FALSE),
             Field("to_ref", "toRef", "object", FALSE, FALSE, FALSE),
             Field("reviewers", "reviewers", "object", TRUE, FALSE, FALSE)>>

FieldSet(type) == {Fields(type)[i] : i \in 1..Len(Fields(type))}
OptionalNames(type) == {d.name : d \in {e \in FieldSet(type) : e.optional}}
OptionalKeys(type) == {d.key : d \in {e \in FieldSet(type) : e.optional}}

\* A DateTime<Utc>: whole seconds since the epoch and the nanoseconds within
\* the second.
DateTime(secs, nanos) == [secs |-> secs, nanos |-> nanos]

\* The value a field of a given kind holds in the payloads considered;
\* nanos is the sub-second part given to every timestamp.
Sample(d, nanos) ==
    CASE d.kind = "string"    -> d.name
      [] d.kind = "state"     -> "SUCCESSFUL"
      [] d.kind = "u64"       -> 12
      [] d.kind = "timestamp" -> DateTime(1738198923, nanos)
      [] d.kind = "object"    -> d.name

\* The payload value of a type with the optional fields in set Some and the
\* others None.
ValueOf(type, set, nanos) ==
    [n \in {d.name : d \in FieldSet(type)} |->
        LET d == CHOOSE e \in FieldSet(type) : e.name = n IN
        IF ~d.optional THEN Sample(d, nanos)
        ELSE IF n \in set THEN Some(Sample(d, nanos)) ELSE None]

\* Serialize of one field value: ts_seconds_option writes timestamp(), the
\* whole seconds; the state is written as the string of its variant.
ser_field(d, v) == IF d.kind = "timestamp" THEN v.secs ELSE v

\* Deserialize of one JSON value into a field: ts_seconds_option reads whole
\* seconds; a state must name a variant.
de_field(d, j) ==
    CASE d.kind = "timestamp" -> [ok |-> TRUE, value |-> DateTime(j, 0)]
      [] d.kind = "state"     -> BuildStatusState_deserialize(j)
      [] OTHER                -> [ok |-> TRUE, value |-> j]

\* A Serialize without skip_serializing_if: a None field is written as null.
serialize_nulls(type, v) ==
    [k \in {d.key : d \in FieldSet(type)} |->
        LET d == CHOOSE e \in FieldSet(type) : e.key = k IN
        IF ~d.optional THEN ser_field(d, v[d.name])
        ELSE IF v[d.name] = None THEN "null"
        ELSE ser_field(d, v[d.name][1])]

\* The derived Serialize: the JSON object of a value, as the map from its
\* keys to their JSON values; a None field leaves no key.
serialize(type, v) ==
    LET present == {d \in FieldSet(type) : ~d.optional \/ v[d.name] # None} IN
    [k \in {d.key : d \in present} |->
        LET d == CHOOSE e \in present : e.key = k IN
        ser_field(d, IF d.optional THEN v[d.name][1] ELSE v[d.name])]

\* The derived Deserialize of one field from a JSON object: a key that is
\* absent is None only for an Option that is read the default way or has
\* #[serde(default)]; unknown keys are ignored.
de_struct_field(d, json) ==
    IF d.key \in DOMAIN json THEN
        LET r == de_field(d, json[d.key]) IN
        IF ~r.ok THEN [ok |-> FALSE, value |-> None, msg |-> <<"unknown variant">>]
        ELSE [ok |-> TRUE, value |-> IF d.optional THEN Some(r.value) ELSE r.value,
              msg |-> <<>>]
    ELSE IF d.optional /\ (~d.with_ts \/ d.default)
         THEN [ok |-> TRUE, value |-> None, msg |-> <<>>]
         ELSE [ok |-> FALSE, value |-> None, msg |-> <<"missing field">>]

\* The derived Deserialize: the value, or the error of the first field in
\* declaration order that has one.
deserialize(type, json) ==
    LET fs == Fields(type)
        failed == {i \in 1..Len(fs) : ~de_struct_field(fs[i], json).ok}
    IN IF failed # {}
       THEN [ok |-> FALSE, value |-> None,
             msg |-> de_struct_field(fs[CHOOSE i \in failed : \A j \in failed : i <= j], json).msg]
       ELSE [ok |-> TRUE,
             value |-> [n \in {d.name : d \in FieldSet(type)} |->
                          de_struct_field(CHOOSE e \in FieldSet(type) : e.name = n, json).value],
             msg |-> <<>>]

\* The JSON object each document token stands for: "B", "C" and "P" have
\* every key of their type, "U" is "B" with its other state string, and "M"
\* is "B" without its optional keys.
Json(tok) ==
    LET type == IF tok \in {"U", "M"} THEN "BuildStatus"
                ELSE CHOOSE t \in SerdeTypes \ {"BuildStatusPostPayload"} : DocOf(t) = tok
        full == serialize(type, ValueOf(type, OptionalNames(type), 0))
    IN CASE tok = "U" -> [full EXCEPT !["state"] = StateOf("U")]
         [] tok = "M" -> [k \in DOMAIN full \ OptionalKeys(type) |-> full[k]]
         [] tok = "B" -> [full EXCEPT !["state"] = StateOf("B")]
         [] OTHER     -> full

\* What the derived Deserialize of each Output type makes of each document.
DocTokens == {"B", "C", "P", "U", "M"}
Decoded ==
    [T \in ApiRequests |-> [tok \in DocTokens |-> deserialize(Output(T), Json(tok))]]

\* serde_json::from_str::<T::Output>(json): one value of the Output type,
\* surrounded by optional whitespace and nothing else.
from_str(T, json) ==
    LET s == SkipWs(json) IN
    IF s = <<>> THEN [ok |-> FALSE, value |-> "", msg |-> <<"EOF while parsing a value">>]
    ELSE IF Head(s) = "x" THEN [ok |-> FALSE, value |-> "", msg |-> <<"expected value">>]
    ELSE IF ~Decoded[T][Head(s)].ok
         THEN [ok |-> FALSE, value |-> "", msg |-> Decoded[T][Head(s)].msg]
    ELSE IF SkipWs(Tail(s)) # <<>> THEN [ok |-> FALSE, value |-> "", msg |-> <<"trailing characters">>]
    ELSE [ok |-> TRUE, value |-> Output(T), msg |-> <<>>]

\* make_api_response without the empty-body early return.
make_api_response_no_empty_check(T, json) ==
    LET data == from_str(T, json) IN
    IF data.ok THEN OkSome(data.value) ELSE DeserializationError(data.msg)

\* make_api_response that swallows a decode failure as an empty success.
make_api_response_swallow(T, json) ==
    IF Len(json) = 0 THEN OkNone
    ELSE LET data == from_str(T, json) IN
         IF data.ok THEN OkSome(data.value) ELSE OkNone

\* make_api_response that treats a body of whitespace only as empty.
make_api_response_trim(T, json) ==
    IF Len(SkipWs(json)) = 0 THEN OkNone
    ELSE LET data == from_str(T, json) IN
         IF data.ok THEN OkSome(data.value) ELSE DeserializationError(data.msg)

\* Client::make_api_response
make_api_response(T, json) ==
    IF Len(json) = 0 THEN OkNone
    ELSE LET data == from_str(T, json) IN
         IF data.ok THEN OkSome(data.value) ELSE DeserializationError(data.msg)

\* process_response with the 401/403 arm placed after the 4xx arm.
process_response_unauth_late(T, st, rd) ==
    IF is_success(st) THEN
        IF rd.st = "ok" THEN make_api_response(T, rd.text) ELSE ResponseError
    ELSE IF is_client_error(st) THEN HttpClientError(st, unwrap_or_default(rd))
    ELSE IF st = UNAUTHORIZED \/ st = FORBIDDEN THEN Unauthorized
    ELSE IF is_server_error(st) THEN HttpServerError(st, unwrap_or_default(rd))
    ELSE UnexpectedResponse(st, UnexpectedText(st, unwrap_or_default(rd)))

\* process_response that drops the body text of a 4xx/5xx response.
process_response_no_text(T, st, rd) ==
    IF is_success(st) THEN
        IF rd.st = "ok" THEN make_api_response(T, rd.text) ELSE ResponseError
    ELSE IF st = UNAUTHORIZED \/ st = FORBIDDEN THEN Unauthorized
    ELSE IF is_client_error(st) THEN HttpClientError(st, <<>>)
    ELSE IF is_server_error(st) THEN HttpServerError(st, <<>>)
    ELSE UnexpectedResponse(st, UnexpectedText(st, unwrap_or_default(rd)))

\* process_response whose fallback arm reports only the status.
process_response_no_unexpected_body(T, st, rd) ==
    IF is_success(st) THEN
        IF rd.st = "ok" THEN make_api_response(T, rd.text) ELSE ResponseError
    ELSE IF st = UNAUTHORIZED \/ st = FORBIDDEN THEN Unauthorized
    ELSE IF is_client_error(st) THEN HttpClientError(st, unwrap_or_default(rd))
    ELSE IF is_server_error(st) THEN HttpServerError(st, unwrap_or_default(rd))
    ELSE UnexpectedResponse(st, UnexpectedText(st, <<>>))

\* process_response whose 5xx arm returns the 4xx error.
process_response_5xx_as_client(T, st, rd) ==
    IF is_success(st) THEN
        IF rd.st = "ok" THEN make_api_response(T, rd.text) ELSE ResponseError
    ELSE IF st = UNAUTHORIZED \/ st = FORBIDDEN THEN Unauthorized
    ELSE IF is_client_error(st) THEN HttpClientError(st, unwrap_or_default(rd))
    ELSE IF is_server_error(st) THEN HttpClientError(st, unwrap_or_default(rd))
    ELSE UnexpectedResponse(st, UnexpectedText(st, unwrap_or_default(rd)))

\* process_response in which every arm that reads the body reports a failed
\* read as ResponseError.
process_response_read_err_propagates(T, st, rd) ==
    IF is_success(st) THEN
        IF rd.st = "ok" THEN make_api_response(T, rd.text) ELSE ResponseError
    ELSE IF st = UNAUTHORIZED \/ st = FORBIDDEN THEN Unauthorized
    ELSE IF rd.st = "err" THEN ResponseError
    ELSE IF is_client_error(st) THEN HttpClientError(st, unwrap_or_default(rd))
    ELSE IF is_server_error(st) THEN HttpServerError(st, unwrap_or_default(rd))
    ELSE UnexpectedResponse(st, UnexpectedText(st, unwrap_or_default(rd)))

\* Client::process_response, given the result rd of response.text().await
\* (which the 401/403 arm never asks for).
process_response(T, st, rd) ==
    IF is_success(st) THEN
        IF rd.st = "ok" THEN make_api_response(T, rd.text) ELSE ResponseError
    ELSE IF st = UNAUTHORIZED \/ st = FORBIDDEN THEN Unauthorized
    ELSE IF is_client_error(st) THEN HttpClientError(st, unwrap_or_default(rd))
    ELSE IF is_server_error(st) THEN HttpServerError(st, unwrap_or_default(rd))
    ELSE UnexpectedResponse(st, UnexpectedText(st, unwrap_or_default(rd)))

\* The arms of process_response that await response.text().
reads_body(st) == ~(~is_success(st) /\ (st = UNAUTHORIZED \/ st = FORBIDDEN))

\* reqwest's IntoUrl: an absolute http(s) URL with a host.
IntoUrlOk(url) == Len(url) >= 2 /\ url[1] \in {"http://", "https://"}

\* HeaderValue::try_from: no control character in the value.
HeaderValueOk(v) == \A i \in 1..Len(v) : v[i] # "\n"

\* A request whose body is encoded once more, as a JSON string.
build_reencoded(c, method, uri, params, body) ==
    LET url == c.base_path \o <<"/">> \o uri
        auth == <<"Bearer ">> \o c.api_token
    IN [ok |-> IntoUrlOk(url) /\ HeaderValueOk(auth),
        req |-> [method |-> method, url |-> url, authorization |-> auth,
                 transport |-> c.http_client,
                 content_type |-> "application/json",
                 query |-> params,
                 body |-> IF body = <<>> THEN body ELSE <<"\"">> \o body \o <<"\"">>]]

\* The request get/post assemble: format!("{}/{}", base_path, uri), the verb's
\* query or body, then builder()'s two headers; .build() is Err when the URL
\* or a header value was rejected.  The request is made by, and later
\* executed on, the http_client of the client get/post was called on.
build(c, method, uri, params, body) ==
    LET url == c.base_path \o <<"/">> \o uri
        auth == <<"Bearer ">> \o c.api_token
    IN [ok |-> IntoUrlOk(url) /\ HeaderValueOk(auth),
        req |-> [method |-> method, url |-> url, authorization |-> auth,
                 transport |-> c.http_client,
                 content_type |-> "application/json",
                 query |-> params, body |-> body]]

\* ---------------------------------------------------------------- actions
TypeOK ==
    /\ client \in [base_path : BasePaths, api_token : ApiTokens, http_client : {"reqwest"}]
    /\ pc \in [Sends -> {"idle", "execute", "text", "done", "panicked", "abandoned"}]
    /\ api_request \in [Sends -> ApiRequests \cup {""}]
    /\ status \in [Sends -> Statuses \cup {0}]
    /\ \A s \in Sends : read[s] \in {NotRead, ReadErr} \cup {ReadOk(t) : t \in Texts}

\* client::new(base_path, api_token); no send has been started.
Init ==
    /\ client \in [base_path : BasePaths, api_token : ApiTokens, http_client : {"reqwest"}]
    /\ pc = [s \in Sends |-> "idle"]
    /\ api_request = [s \in Sends |-> ""]
    /\ req = [s \in Sends |-> NoReq]
    /\ status = [s \in Sends |-> 0]
    /\ read = [s \in Sends |-> NotRead]
    /\ outcome = [s \in Sends |-> NoOutcome]
    /\ calls = [s \in Sends |-> NoCalls]
    /\ endpoint = [s \in Sends |-> NoEndpoint]
    /\ serde = NoSerde

\* A get that answers from the outcome of an earlier send of the same request
\* instead of issuing a request of its own.
Get_cached(s, T, uri, params) ==
    LET b == build(client, "GET", uri, params, <<>>)
        earlier == {o \in DOMAIN pc : o # s /\ pc[o] = "done" /\ api_request[o] = T /\ req[o] = b.req}
    IN
    /\ pc[s] = "idle"
    /\ api_request' = [api_request EXCEPT ![s] = T]
    /\ IF ~b.ok
       THEN /\ pc' = [pc EXCEPT ![s] = "panicked"]
            /\ UNCHANGED <<req, calls, outcome>>
       ELSE IF earlier # {}
       THEN /\ pc' = [pc EXCEPT ![s] = "done"]
            /\ req' = [req EXCEPT ![s] = b.req]
            /\ outcome' = [outcome EXCEPT ![s] = outcome[CHOOSE o \in earlier : TRUE]]
            /\ UNCHANGED calls
       ELSE /\ pc' = [pc EXCEPT ![s] = "execute"]
            /\ req' = [req EXCEPT ![s] = b.req]
            /\ calls' = [calls EXCEPT ![s].execute = @ + 1]
            /\ UNCHANGED outcome
    /\ UNCHANGED <<serde, endpoint, client, status, read>>

\* Client::get::<T>(uri, params) up to its first suspension: the request is
\* built (.expect panics when build() is Err) and handed to execute().
Get(s, T, uri, params) ==
    LET b == build(client, "GET", uri, params, <<>>) IN
    /\ pc[s] = "idle"
    /\ api_request' = [api_request EXCEPT ![s] = T]
    /\ IF b.ok
       THEN /\ pc' = [pc EXCEPT ![s] = "execute"]
            /\ req' = [req EXCEPT ![s] = b.req]
            /\ calls' = [calls EXCEPT ![s].execute = @ + 1]
       ELSE /\ pc' = [pc EXCEPT ![s] = "panicked"]
            /\ UNCHANGED <<req, calls>>
    /\ UNCHANGED <<serde, endpoint, client, status, read, outcome>>

\* Client::post::<T>(uri, body) up to its first suspension.
Post(s, T, uri, body) ==
    LET b == build(client, "POST", uri, {}, body) IN
    /\ pc[s] = "idle"
    /\ api_request' = [api_request EXCEPT ![s] = T]
    /\ IF b.ok
       THEN /\ pc' = [pc EXCEPT ![s] = "execute"]
            /\ req' = [req EXCEPT ![s] = b.req]
            /\ calls' = [calls EXCEPT ![s].execute = @ + 1]
       ELSE /\ pc' = [pc EXCEPT ![s] = "panicked"]
            /\ UNCHANGED <<req, calls>>
    /\ UNCHANGED <<serde, endpoint, client, status, read, outcome>>

\* A transport failure that is classified like a response whose body
\* could not be read.
ExecuteErr_as_response(s) ==
    /\ pc[s] = "execute"
    /\ pc' = [pc EXCEPT ![s] = "done"]
    /\ outcome' = [outcome EXCEPT ![s] = ResponseError]
    /\ calls' = [calls EXCEPT ![s].classify = @ + 1]
    /\ UNCHANGED <<serde, endpoint, client, api_request, req, status, read>>

\* A transport failure after which the request is handed to execute() again.
ExecuteErr_retry(s) ==
    /\ pc[s] = "execute"
    /\ IF calls[s].execute < 2
       THEN /\ calls' = [calls EXCEPT ![s].execute = @ + 1]
            /\ UNCHANGED <<pc, outcome>>
       ELSE /\ pc' = [pc EXCEPT ![s] = "done"]
            /\ outcome' = [outcome EXCEPT ![s] = RequestError]
            /\ UNCHANGED calls
    /\ UNCHANGED <<serde, endpoint, client, api_request, req, status, read>>

\* http_client.execute(req).await is Err: map_err(.. RequestError)?
ExecuteErr(s) ==
    /\ pc[s] = "execute"
    /\ pc' = [pc EXCEPT ![s] = "done"]
    /\ outcome' = [outcome EXCEPT ![s] = RequestError]
    /\ UNCHANGED <<serde, endpoint, client, api_request, req, status, read, calls>>

\* http_client.execute(req).await is Ok(response): process_response runs to
\* its return (401/403) or to response.text().await (every other arm).
ExecuteOk(s, st) ==
    /\ pc[s] = "execute"
    /\ status' = [status EXCEPT ![s] = st]
    /\ IF reads_body(st)
       THEN /\ pc' = [pc EXCEPT ![s] = "text"]
            /\ calls' = [calls EXCEPT ![s].classify = @ + 1, ![s].text = @ + 1]
            /\ UNCHANGED outcome
       ELSE /\ pc' = [pc EXCEPT ![s] = "done"]
            /\ calls' = [calls EXCEPT ![s].classify = @ + 1]
            /\ outcome' = [outcome EXCEPT ![s] = process_response(api_request[s], st, NotRead)]
    /\ UNCHANGED <<serde, endpoint, client, api_request, req, read>>

\* A body read that classifies by the status of the first send's response,
\* as if the response were kept in a slot shared by all sends.
TextOk_shared_status(s, t) ==
    /\ pc[s] = "text"
    /\ read' = [read EXCEPT ![s] = ReadOk(t)]
    /\ pc' = [pc EXCEPT ![s] = "done"]
    /\ outcome' = [outcome EXCEPT ![s] =
                      process_response(api_request[s],
                                       IF status[1] # 0 THEN status[1] ELSE status[s],
                                       ReadOk(t))]
    /\ calls' = [calls EXCEPT ![s].from_str =
                    IF is_success(status[s]) /\ Len(t) # 0 THEN @ + 1 ELSE @]
    /\ UNCHANGED <<serde, endpoint, client, api_request, req, status>>

\* response.text().await is Ok(t): the arm that awaited it returns; only the
\* 2xx arm hands a non-empty text to the decoder.
TextOk(s, t) ==
    /\ pc[s] = "text"
    /\ read' = [read EXCEPT ![s] = ReadOk(t)]
    /\ pc' = [pc EXCEPT ![s] = "done"]
    /\ outcome' = [outcome EXCEPT ![s] = process_response(api_request[s], status[s], ReadOk(t))]
    /\ calls' = [calls EXCEPT ![s].from_str =
                    IF is_success(status[s]) /\ Len(t) # 0 THEN @ + 1 ELSE @]
    /\ UNCHANGED <<serde, endpoint, client, api_request, req, status>>

\* response.text().await is Err: the arm that awaited it returns.
TextErr(s) ==
    /\ pc[s] = "text"
    /\ read' = [read EXCEPT ![s] = ReadErr]
    /\ pc' = [pc EXCEPT ![s] = "done"]
    /\ outcome' = [outcome EXCEPT ![s] = process_response(api_request[s], status[s], ReadErr)]
    /\ UNCHANGED <<serde, endpoint, client, api_request, req, status, calls>>

\* Dropping the future takes the transport of the client down with it.
Abandon_closes_transport(s) ==
    /\ pc[s] \in {"execute", "text"}
    /\ pc' = [pc EXCEPT ![s] = "abandoned"]
    /\ client' = [client EXCEPT !.http_client = "closed"]
    /\ UNCHANGED <<serde, endpoint, api_request, req, status, read, outcome, calls>>

\* The caller drops the future while it is suspended.
Abandon(s) ==
    /\ pc[s] \in {"execute", "text"}
    /\ pc' = [pc EXCEPT ![s] = "abandoned"]
    /\ UNCHANGED <<serde, endpoint, client, api_request, req, status, read, outcome, calls>>

Next ==
    \/ \E s \in Sends, T \in GetRequests, uri \in Uris, params \in ParamMaps : Get(s, T, uri, params)
    \/ \E s \in Sends, T \in PostRequests, uri \in Uris, body \in PostBodies : Post(s, T, uri, body)
    \/ \E s \in Sends : ExecuteErr(s)
    \/ \E s \in Sends, st \in Statuses : ExecuteOk(s, st)
    \/ \E s \in Sends, t \in Texts : TextOk(s, t)
    \/ \E s \in Sends : TextErr(s)
    \/ \E s \in Sends : Abandon(s)

Spec == Init /\ [][Next]_vars

\* The transport eventually answers every request it was handed and every
\* body read it was asked for; nothing obliges the caller to abandon.
Transport(s) ==
    \/ ExecuteErr(s)
    \/ \E st \in Statuses : ExecuteOk(s, st)
    \/ \E t \in Texts : TextOk(s, t)
    \/ TextErr(s)

FairSpec == Spec /\ \A s \in Sends : WF_vars(Transport(s))

\* ---------------------------------------------------------------- concurrent sends
\* Several sends against one client, their transport steps interleaved in
\* every order; responses are drawn from one status of each class and from
\* an empty, a decodable and an undecodable body.
NumConc == 2
ConcSends == 1..NumConc
ConcStatuses == {200, 300, 401, 404, 500}
ConcTexts == {<<>>, <<"B">>, <<"x">>}

ConcInit ==
    /\ client \in [base_path : BasePaths, api_token : ApiTokens, http_client : {"reqwest"}]
    /\ pc = [s \in ConcSends |-> "idle"]
    /\ api_request = [s \in ConcSends |-> ""]
    /\ req = [s \in ConcSends |-> NoReq]
    /\ status = [s \in ConcSends |-> 0]
    /\ read = [s \in ConcSends |-> NotRead]
    /\ outcome = [s \in ConcSends |-> NoOutcome]
    /\ calls = [s \in ConcSends |-> NoCalls]
    /\ endpoint = [s \in ConcSends |-> NoEndpoint]
    /\ serde = NoSerde

ConcNext ==
    \/ \E s \in ConcSends, T \in GetRequests, uri \in Uris, params \in ParamMaps : Get(s, T, uri, params)
    \/ \E s \in ConcSends, T \in PostRequests, uri \in Uris, body \in PostBodies : Post(s, T, uri, body)
    \/ \E s \in ConcSends : ExecuteErr(s)
    \/ \E s \in ConcSends, st \in ConcStatuses : ExecuteOk(s, st)
    \/ \E s \in ConcSends, t \in ConcTexts : TextOk(s, t)
    \/ \E s \in ConcSends : TextErr(s)
    \/ \E s \in ConcSends : Abandon(s)

ConcSpec == ConcInit /\ [][ConcNext]_vars

\* ---------------------------------------------------------------- endpoints
\* One endpoint request at a time, from the Api constructor (or the builder's
\* Default) through the setters and build() to send(); concurrent sends are
\* ConcSpec's subject.
EpSends == {1}
EpStatuses == {200, 201, 204, 401, 404}
EpTexts == {<<>>, <<"B">>, <<"U">>, <<"M">>}

\* The structs with #[derive(Builder)], and their fields in declaration
\* order: those without a default, then those with
\* #[builder(setter(into, strip_option), default)].
BuilderApis == {"BuildStatusGet", "PullRequestChangesGet"}

RequiredFields(api) ==
    CASE api = "BuildStatusGet" ->
            <<"client", "project_key", "commit_id", "repository_slug">>
      [] api = "PullRequestChangesGet" ->
            <<"client", "project_key", "pull_request_id", "repository_slug">>

OptionalFields(api) ==
    CASE api = "BuildStatusGet" -> {"key"}
      [] api = "PullRequestChangesGet" ->
            {"since_id", "change_scope", "until_id", "start", "limit", "with_comments"}

Range(seq) == {seq[i] : i \in 1..Len(seq)}

\* Values a caller may give each field: String, u32 (start, limit) and bool
\* (with_comments).
FieldValues(f) ==
    CASE f = "client"          -> {client}
      [] f = "project_key"     -> {"PROJECT_KEY"}
      [] f = "repository_slug" -> {"REPOSITORY_SLUG"}
      [] f = "commit_id"       -> {"COMMIT_ID"}
      [] f = "pull_request_id" -> {"PR_ID"}
      [] f = "key"             -> {"KEY"}
      [] f = "since_id"        -> {"SINCE_ID"}
      [] f = "change_scope"    -> {"SCOPE"}
      [] f = "until_id"        -> {"UNTIL_ID"}
      [] f = "start"           -> {1}
      [] f = "limit"           -> {10}
      [] f = "with_comments"   -> {TRUE, FALSE}

\* PullRequestPostPayload values: description and reviewers are Options.
PullRequestPostPayloads ==
    [title : {"TITLE"}, description : {None, Some("DESC")},
     from_ref : {"FROM_REF"}, to_ref : {"TO_REF"},
     reviewers : {None, Some("REVIEWERS")}]

\* Result<(), String> of BuildStatusPostBuilder::send.
OkUnit == [kind |-> "OkUnit", status |-> 0, text |-> <<>>, value |-> ""]
ErrString(t) == [kind |-> "ErrString", status |-> 0, text |-> t, value |-> ""]

\* One "name":value member of a serialised struct; a None with
\* skip_serializing_if = "Option::is_none" leaves no member.
Member(name, v) == <<name, v>>
OptMember(name, o) == IF o = None THEN <<>> ELSE <<name, o[1]>>

\* serde_json::to_string(&PullRequestPostPayload), rename_all = "camelCase".
PullRequestPostPayload_to_string(p) ==
    <<"{">> \o Member("title", p.title) \o OptMember("description", p.description)
            \o Member("fromRef", p.from_ref) \o Member("toRef", p.to_ref)
            \o OptMember("reviewers", p.reviewers) \o <<"}">>

\* A JSON value as it is written: numbers in decimal.
JsonText(d, j) == IF d.kind \in {"timestamp", "u64"} THEN ToString(j) ELSE j

\* The members of a serialised value, from field i on, in declaration order.
RECURSIVE Members(_, _, _)
Members(fs, v, i) ==
    IF i > Len(fs) THEN <<>>
    ELSE (IF ~fs[i].optional
          THEN Member(fs[i].key, JsonText(fs[i], ser_field(fs[i], v[fs[i].name])))
          ELSE IF v[fs[i].name] = None THEN <<>>
          ELSE Member(fs[i].key, JsonText(fs[i], ser_field(fs[i], v[fs[i].name][1]))))
         \o Members(fs, v, i + 1)

\* serde_json serialisation of BuildStatusPostPayload, as .json() writes it.
BuildStatusPostPayload_to_string(p) ==
    <<"{">> \o Members(Fields("BuildStatusPostPayload"), p, 1) \o <<"}">>

\* u32::to_string and bool::to_string.
u32_to_string(n) == ToString(n)
bool_to_string(b) == IF b THEN "true" ELSE "false"

\* The params map BuildStatusGet::send fills.
BuildStatusGet_params(f) ==
    IF f.key # None THEN {<<"key", f.key[1]>>} ELSE {}

\* A params map keyed by the field names instead of the wire names.
PullRequestChangesGet_params_snake(f) ==
    (IF f.since_id # None THEN {<<"since_id", f.since_id[1]>>} ELSE {})
    \cup (IF f.change_scope # None THEN {<<"change_scope", f.change_scope[1]>>} ELSE {})
    \cup (IF f.until_id # None THEN {<<"until_id", f.until_id[1]>>} ELSE {})
    \cup (IF f.start # None THEN {<<"start", u32_to_string(f.start[1])>>} ELSE {})
    \cup (IF f.limit # None THEN {<<"limit", u32_to_string(f.limit[1])>>} ELSE {})
    \cup (IF f.with_comments # None
          THEN {<<"with_comments", bool_to_string(f.with_comments[1])>>} ELSE {})

\* The params map PullRequestChangesGet::send fills.
PullRequestChangesGet_params(f) ==
    (IF f.since_id # None THEN {<<"sinceId", f.since_id[1]>>} ELSE {})
    \cup (IF f.change_scope # None THEN {<<"changeScope", f.change_scope[1]>>} ELSE {})
    \cup (IF f.until_id # None THEN {<<"untilId", f.until_id[1]>>} ELSE {})
    \cup (IF f.start # None THEN {<<"start", u32_to_string(f.start[1])>>} ELSE {})
    \cup (IF f.limit # None THEN {<<"limit", u32_to_string(f.limit[1])>>} ELSE {})
    \cup (IF f.with_comments # None
          THEN {<<"withComments", bool_to_string(f.with_comments[1])>>} ELSE {})

\* The request_uri each send formats.
BuildStatusGet_uri(f) ==
    <<"api/latest/projects/", f.project_key[1], "/repos/", f.repository_slug[1],
      "/commits/", f.commit_id[1], "/builds">>
PullRequestChangesGet_uri(f) ==
    <<"api/latest/projects/", f.project_key[1], "/repos/", f.repository_slug[1],
      "/pull-requests/", f.pull_request_id[1], "/changes">>
PullRequestPost_uri(f) ==
    <<"api/latest/projects/", f.project_key[1], "/repos/", f.repository_slug[1],
      "/pull-requests">>

\* The request BuildStatusPostBuilder::send assembles itself: the URL under
\* api/v1, Content-Type as its one header, and .json(&self.build_status).
BuildStatusPostBuilder_request(f) ==
    LET url == f.client[1].base_path
                 \o <<"/api/v1/repos/", f.project_key[1], "/", f.repository_slug[1],
                      "/commits/", f.commit_id[1], "/build-status">>
    IN [ok |-> IntoUrlOk(url),
        req |-> [method |-> "POST", url |-> url, authorization |-> <<>>,
                 transport |-> f.client[1].http_client,
                 content_type |-> "application/json", query |-> {},
                 body |-> BuildStatusPostPayload_to_string(f.build_status[1])]]

\* BuildStatusGetBuilder::default() / PullRequestChangesGetBuilder::default():
\* a builder with no field set.
BuilderDefault(s, api) ==
    /\ endpoint[s].stage = "none"
    /\ endpoint' = [endpoint EXCEPT ![s] = [NoEndpoint EXCEPT !.api = api, !.stage = "builder"]]
    /\ UNCHANGED <<serde, client, pc, api_request, req, status, read, outcome, calls>>

\* A build_status_get that passes its arguments on by position, as if they
\* came in the order of pull_request_changes_get.
Api_build_status_get_positional(s, project_key, commit_id, repository_slug) ==
    /\ endpoint[s].stage = "none"
    /\ endpoint' = [endpoint EXCEPT ![s] =
            [NoEndpoint EXCEPT !.api = "BuildStatusGet", !.stage = "builder",
                               !.fields.client = Some(client),
                               !.fields.project_key = Some(project_key),
                               !.fields.repository_slug = Some(commit_id),
                               !.fields.commit_id = Some(repository_slug)]]
    /\ UNCHANGED <<serde, client, pc, api_request, req, status, read, outcome, calls>>

\* Api::build_status_get(project_key, commit_id, repository_slug): the
\* default builder with the client's clone and the three path fields set.
Api_build_status_get(s, project_key, commit_id, repository_slug) ==
    /\ endpoint[s].stage = "none"
    /\ endpoint' = [endpoint EXCEPT ![s] =
            [NoEndpoint EXCEPT !.api = "BuildStatusGet", !.stage = "builder",
                               !.fields.client = Some(client),
                               !.fields.project_key = Some(project_key),
                               !.fields.commit_id = Some(commit_id),
                               !.fields.repository_slug = Some(repository_slug)]]
    /\ UNCHANGED <<serde, client, pc, api_request, req, status, read, outcome, calls>>

\* Api::pull_request_changes_get(project_key, repository_slug, pull_request_id)
Api_pull_request_changes_get(s, project_key, repository_slug, pull_request_id) ==
    /\ endpoint[s].stage = "none"
    /\ endpoint' = [endpoint EXCEPT ![s] =
            [NoEndpoint EXCEPT !.api = "PullRequestChangesGet", !.stage = "builder",
                               !.fields.client = Some(client),
                               !.fields.project_key = Some(project_key),
                               !.fields.repository_slug = Some(repository_slug),
                               !.fields.pull_request_id = Some(pull_request_id)]]
    /\ UNCHANGED <<serde, client, pc, api_request, req, status, read, outcome, calls>>

\* A setter that starts from the default builder again: every field with a
\* default other than the one set goes back to None.
BuilderSetter_resets(s, f, v) ==
    /\ endpoint[s].stage = "builder"
    /\ f \in Range(RequiredFields(endpoint[s].api)) \cup OptionalFields(endpoint[s].api)
    /\ endpoint[s].fields[f] # Some(v)
    /\ endpoint' = [endpoint EXCEPT ![s].fields =
            [g \in FieldNames |->
                IF g = f THEN Some(v)
                ELSE IF g \in OptionalFields(endpoint[s].api) THEN None
                ELSE endpoint[s].fields[g]]]
    /\ UNCHANGED <<serde, client, pc, api_request, req, status, read, outcome, calls>>

\* A generated setter of a builder: the field becomes Some(v).
BuilderSetter(s, f, v) ==
    /\ endpoint[s].stage = "builder"
    /\ f \in Range(RequiredFields(endpoint[s].api)) \cup OptionalFields(endpoint[s].api)
    /\ endpoint[s].fields[f] # Some(v)
    /\ endpoint' = [endpoint EXCEPT ![s].fields[f] = Some(v)]
    /\ UNCHANGED <<serde, client, pc, api_request, req, status, read, outcome, calls>>

\* A build() that validates nothing.
BuilderBuild_unchecked(s) ==
    /\ endpoint[s].stage = "builder"
    /\ endpoint' = [endpoint EXCEPT ![s].stage = "built"]
    /\ UNCHANGED <<serde, client, pc, api_request, req, status, read, outcome, calls>>

\* The generated build(): Err(UninitializedField(name)) for the first field
\* without a default that was never set, else the struct, each unset
\* defaulted field at its Default (None).
BuilderBuild(s) ==
    LET required == RequiredFields(endpoint[s].api)
        missing == {i \in 1..Len(required) : endpoint[s].fields[required[i]] = None}
    IN
    /\ endpoint[s].stage = "builder"
    /\ IF missing # {}
       THEN endpoint' = [endpoint EXCEPT
                ![s].stage = "error",
                ![s].error = required[CHOOSE i \in missing : \A j \in missing : i <= j]]
       ELSE endpoint' = [endpoint EXCEPT ![s].stage = "built"]
    /\ UNCHANGED <<serde, client, pc, api_request, req, status, read, outcome, calls>>

\* Api::pull_request_post(project_key, repository_slug, pull_request): the
\* request struct itself, no build step.
Api_pull_request_post(s, project_key, repository_slug, pull_request) ==
    /\ endpoint[s].stage = "none"
    /\ endpoint' = [endpoint EXCEPT ![s] =
            [NoEndpoint EXCEPT !.api = "PullRequestPost", !.stage = "built",
                               !.fields.client = Some(client),
                               !.fields.project_key = Some(project_key),
                               !.fields.repository_slug = Some(repository_slug),
                               !.fields.pull_request = Some(pull_request)]]
    /\ UNCHANGED <<serde, client, pc, api_request, req, status, read, outcome, calls>>

\* Api::post_build_status(project_key, commit_id, repository_slug,
\* build_status_key, build_status_url): the builder that has send() itself,
\* its payload in state Unknown.
Api_post_build_status(s, project_key, commit_id, repository_slug, build_status_key, build_status_url) ==
    /\ endpoint[s].stage = "none"
    /\ endpoint' = [endpoint EXCEPT ![s] =
            [NoEndpoint EXCEPT !.api = "BuildStatusPostBuilder", !.stage = "built",
                               !.fields.client = Some(client),
                               !.fields.project_key = Some(project_key),
                               !.fields.commit_id = Some(commit_id),
                               !.fields.repository_slug = Some(repository_slug),
                               !.fields.build_status =
                                   Some([ValueOf("BuildStatusPostPayload", {}, 0) EXCEPT
                                            !.key = build_status_key,
                                            !.state = "UNKNOWN",
                                            !.url = build_status_url])]]
    /\ UNCHANGED <<serde, client, pc, api_request, req, status, read, outcome, calls>>

\* The value a caller gives the payload's field f.
PayloadSample(f) ==
    Sample(CHOOSE d \in FieldSet("BuildStatusPostPayload") : d.name = f, 0)

\* BuildStatusPostBuilder::build_number, date_added, description,
\* duration_secs, name, parent, reference, test_results: the Option of the
\* payload becomes Some(v).
BuildStatusPostBuilder_set(s, f, v) ==
    /\ endpoint[s].api = "BuildStatusPostBuilder" /\ endpoint[s].stage = "built"
    /\ pc[s] = "idle"
    /\ f \in OptionalNames("BuildStatusPostPayload")
    /\ endpoint[s].fields.build_status[1][f] # Some(v)
    /\ endpoint' = [endpoint EXCEPT ![s].fields.build_status[1][f] = Some(v)]
    /\ UNCHANGED <<serde, client, pc, api_request, req, status, read, outcome, calls>>

\* BuildStatusPostBuilder::state_successful, state_failed, state_in_progress,
\* state_cancelled, state_unknown: the state of the payload becomes that one.
BuildStatusPostBuilder_state(s, state) ==
    /\ endpoint[s].api = "BuildStatusPostBuilder" /\ endpoint[s].stage = "built"
    /\ pc[s] = "idle"
    /\ endpoint[s].fields.build_status[1].state # state
    /\ endpoint' = [endpoint EXCEPT ![s].fields.build_status[1].state = state]
    /\ UNCHANGED <<serde, client, pc, api_request, req, status, read, outcome, calls>>

\* A send that asks the caller's client, as it is now, to make the request.
BuildStatusGet_send_live(s) ==
    LET f == endpoint[s].fields
        b == build(client, "GET", BuildStatusGet_uri(f), BuildStatusGet_params(f), <<>>)
    IN
    /\ endpoint[s].api = "BuildStatusGet" /\ endpoint[s].stage = "built"
    /\ pc[s] = "idle"
    /\ api_request' = [api_request EXCEPT ![s] = "BuildStatusGet"]
    /\ IF b.ok
       THEN /\ pc' = [pc EXCEPT ![s] = "execute"]
            /\ req' = [req EXCEPT ![s] = b.req]
            /\ calls' = [calls EXCEPT ![s].execute = @ + 1]
       ELSE /\ pc' = [pc EXCEPT ![s] = "panicked"]
            /\ UNCHANGED <<req, calls>>
    /\ UNCHANGED <<serde, endpoint, client, status, read, outcome>>

\* BuildStatusGet::send up to its first suspension: the uri and the params
\* of the struct, then Client::get::<BuildStatusGet> on the struct's client.
BuildStatusGet_send(s) ==
    LET f == endpoint[s].fields
        b == build(f.client[1], "GET", BuildStatusGet_uri(f), BuildStatusGet_params(f), <<>>)
    IN
    /\ endpoint[s].api = "BuildStatusGet" /\ endpoint[s].stage = "built"
    /\ pc[s] = "idle"
    /\ api_request' = [api_request EXCEPT ![s] = "BuildStatusGet"]
    /\ IF b.ok
       THEN /\ pc' = [pc EXCEPT ![s] = "execute"]
            /\ req' = [req EXCEPT ![s] = b.req]
            /\ calls' = [calls EXCEPT ![s].execute = @ + 1]
       ELSE /\ pc' = [pc EXCEPT ![s] = "panicked"]
            /\ UNCHANGED <<req, calls>>
    /\ UNCHANGED <<serde, endpoint, client, status, read, outcome>>

\* PullRequestChangesGet::send up to its first suspension.
PullRequestChangesGet_send(s) ==
    LET f == endpoint[s].fields
        b == build(f.client[1], "GET", PullRequestChangesGet_uri(f),
                   PullRequestChangesGet_params(f), <<>>)
    IN
    /\ endpoint[s].api = "PullRequestChangesGet" /\ endpoint[s].stage = "built"
    /\ pc[s] = "idle"
    /\ api_request' = [api_request EXCEPT ![s] = "PullRequestChangesGet"]
    /\ IF b.ok
       THEN /\ pc' = [pc EXCEPT ![s] = "execute"]
            /\ req' = [req EXCEPT ![s] = b.req]
            /\ calls' = [calls EXCEPT ![s].execute = @ + 1]
       ELSE /\ pc' = [pc EXCEPT ![s] = "panicked"]
            /\ UNCHANGED <<req, calls>>
    /\ UNCHANGED <<serde, endpoint, client, status, read, outcome>>

\* PullRequestPost::send up to its first suspension: Client::post::<Self>
\* with the serialised payload as the body.
PullRequestPost_send(s) ==
    LET f == endpoint[s].fields
        b == build(f.client[1], "POST", PullRequestPost_uri(f), {},
                   PullRequestPostPayload_to_string(f.pull_request[1]))
    IN
    /\ endpoint[s].api = "PullRequestPost" /\ endpoint[s].stage = "built"
    /\ pc[s] = "idle"
    /\ api_request' = [api_request EXCEPT ![s] = "PullRequestPost"]
    /\ IF b.ok
       THEN /\ pc' = [pc EXCEPT ![s] = "execute"]
            /\ req' = [req EXCEPT ![s] = b.req]
            /\ calls' = [calls EXCEPT ![s].execute = @ + 1]
       ELSE /\ pc' = [pc EXCEPT ![s] = "panicked"]
            /\ UNCHANGED <<req, calls>>
    /\ UNCHANGED <<serde, endpoint, client, status, read, outcome>>

\* BuildStatusPostBuilder::send up to its first suspension: .build().unwrap()
\* panics when the URL is rejected.
BuildStatusPostBuilder_send(s) ==
    LET b == BuildStatusPostBuilder_request(endpoint[s].fields) IN
    /\ endpoint[s].api = "BuildStatusPostBuilder" /\ endpoint[s].stage = "built"
    /\ pc[s] = "idle"
    /\ IF b.ok
       THEN /\ pc' = [pc EXCEPT ![s] = "execute_unwrap"]
            /\ req' = [req EXCEPT ![s] = b.req]
            /\ calls' = [calls EXCEPT ![s].execute = @ + 1]
       ELSE /\ pc' = [pc EXCEPT ![s] = "panicked"]
            /\ UNCHANGED <<req, calls>>
    /\ UNCHANGED <<serde, endpoint, client, api_request, status, read, outcome>>

\* BuildStatusPostBuilder::send, execute(request).await is Err: .unwrap() panics.
BuildStatusPostBuilder_ExecuteErr(s) ==
    /\ pc[s] = "execute_unwrap"
    /\ pc' = [pc EXCEPT ![s] = "panicked"]
    /\ UNCHANGED <<serde, endpoint, client, api_request, req, status, read, outcome, calls>>

\* BuildStatusPostBuilder::send, execute(request).await is Ok(response):
\* NO_CONTENT returns Ok(()), every other status goes on to read the body.
BuildStatusPostBuilder_ExecuteOk(s, st) ==
    /\ pc[s] = "execute_unwrap"
    /\ status' = [status EXCEPT ![s] = st]
    /\ IF st = NO_CONTENT
       THEN /\ pc' = [pc EXCEPT ![s] = "done"]
            /\ outcome' = [outcome EXCEPT ![s] = OkUnit]
            /\ calls' = [calls EXCEPT ![s].classify = @ + 1]
       ELSE /\ pc' = [pc EXCEPT ![s] = "text_unwrap"]
            /\ calls' = [calls EXCEPT ![s].classify = @ + 1, ![s].text = @ + 1]
            /\ UNCHANGED outcome
    /\ UNCHANGED <<serde, endpoint, client, api_request, req, read>>

\* BuildStatusPostBuilder::send, response.text().await is Ok(t).
BuildStatusPostBuilder_TextOk(s, t) ==
    /\ pc[s] = "text_unwrap"
    /\ read' = [read EXCEPT ![s] = ReadOk(t)]
    /\ pc' = [pc EXCEPT ![s] = "done"]
    /\ outcome' = [outcome EXCEPT ![s] = ErrString(UnexpectedText(status[s], t))]
    /\ UNCHANGED <<serde, endpoint, client, api_request, req, status, calls>>

\* BuildStatusPostBuilder::send, response.text().await is Err: .unwrap() panics.
BuildStatusPostBuilder_TextErr(s) ==
    /\ pc[s] = "text_unwrap"
    /\ read' = [read EXCEPT ![s] = ReadErr]
    /\ pc' = [pc EXCEPT ![s] = "panicked"]
    /\ UNCHANGED <<serde, endpoint, client, api_request, req, status, outcome, calls>>

\* The transports a client may hold: the reqwest::Client made by new() and
\* one a caller configured.
HttpClients == {"reqwest", "custom"}

\* A with_http_client that also takes the base path of the new transport's
\* proxy.
with_http_client_rebased(http_client) ==
    /\ client.http_client # http_client
    /\ client' = [client EXCEPT !.http_client = http_client,
                                !.base_path = <<"http://", "proxy", "/rest">>]
    /\ UNCHANGED <<serde, endpoint, pc, api_request, req, status, read, outcome, calls>>

\* Client::with_http_client(&mut self, http_client) on the caller's client.
with_http_client(http_client) ==
    /\ client.http_client # http_client
    /\ client' = [client EXCEPT !.http_client = http_client]
    /\ UNCHANGED <<serde, endpoint, pc, api_request, req, status, read, outcome, calls>>

EndpointInit ==
    /\ client \in [base_path : BasePaths, api_token : ApiTokens, http_client : {"reqwest"}]
    /\ pc = [s \in EpSends |-> "idle"]
    /\ api_request = [s \in EpSends |-> ""]
    /\ req = [s \in EpSends |-> NoReq]
    /\ status = [s \in EpSends |-> 0]
    /\ read = [s \in EpSends |-> NotRead]
    /\ outcome = [s \in EpSends |-> NoOutcome]
    /\ calls = [s \in EpSends |-> NoCalls]
    /\ endpoint = [s \in EpSends |-> NoEndpoint]
    /\ serde = NoSerde

BuilderFieldNames ==
    UNION {Range(RequiredFields(api)) \cup OptionalFields(api) : api \in BuilderApis}

EndpointNext ==
    \/ \E h \in HttpClients : with_http_client(h)
    \/ \E s \in EpSends, api \in BuilderApis : BuilderDefault(s, api)
    \/ \E s \in EpSends : Api_build_status_get(s, "PROJECT_KEY", "COMMIT_ID", "REPOSITORY_SLUG")
    \/ \E s \in EpSends : Api_pull_request_changes_get(s, "PROJECT_KEY", "REPOSITORY_SLUG", "PR_ID")
    \/ \E s \in EpSends, f \in BuilderFieldNames : \E v \in FieldValues(f) : BuilderSetter(s, f, v)
    \/ \E s \in EpSends : BuilderBuild(s)
    \/ \E s \in EpSends, p \in PullRequestPostPayloads :
           Api_pull_request_post(s, "PROJECT_KEY", "REPOSITORY_SLUG", p)
    \/ \E s \in EpSends :
           Api_post_build_status(s, "PROJECT_KEY", "COMMIT_ID", "REPOSITORY_SLUG", "KEY", "URL")
    \/ \E s \in EpSends : BuildStatusGet_send(s)
    \/ \E s \in EpSends : PullRequestChangesGet_send(s)
    \/ \E s \in EpSends : PullRequestPost_send(s)
    \/ \E s \in EpSends : BuildStatusPostBuilder_send(s)
    \/ \E s \in EpSends : BuildStatusPostBuilder_ExecuteErr(s)
    \/ \E s \in EpSends, st \in EpStatuses : BuildStatusPostBuilder_ExecuteOk(s, st)
    \/ \E s \in EpSends, t \in EpTexts : BuildStatusPostBuilder_TextOk(s, t)
    \/ \E s \in EpSends : BuildStatusPostBuilder_TextErr(s)
    \/ \E s \in EpSends : ExecuteErr(s)
    \/ \E s \in EpSends, st \in EpStatuses : ExecuteOk(s, st)
    \/ \E s \in EpSends, t \in EpTexts : TextOk(s, t)
    \/ \E s \in EpSends : TextErr(s)
    \/ \E s \in EpSends : Abandon(s)

EndpointSpec == EndpointInit /\ [][EndpointNext]_vars

\* ---------------------------------------------------------------- builders
\* The builders with all their setters, up to the request send() hands to
\* the transport; what the transport answers is EndpointSpec's subject.
BuilderInit ==
    /\ client \in [base_path : {<<"http://", "host", "/rest">>}, api_token : {<<"TOKEN">>},
                   http_client : {"reqwest"}]
    /\ pc = [s \in EpSends |-> "idle"]
    /\ api_request = [s \in EpSends |-> ""]
    /\ req = [s \in EpSends |-> NoReq]
    /\ status = [s \in EpSends |-> 0]
    /\ read = [s \in EpSends |-> NotRead]
    /\ outcome = [s \in EpSends |-> NoOutcome]
    /\ calls = [s \in EpSends |-> NoCalls]
    /\ endpoint = [s \in EpSends |-> NoEndpoint]
    /\ serde = NoSerde

BuilderNext ==
    \/ \E s \in EpSends, api \in BuilderApis : BuilderDefault(s, api)
    \/ \E s \in EpSends : Api_build_status_get(s, "PROJECT_KEY", "COMMIT_ID", "REPOSITORY_SLUG")
    \/ \E s \in EpSends : Api_pull_request_changes_get(s, "PROJECT_KEY", "REPOSITORY_SLUG", "PR_ID")
    \/ \E s \in EpSends, f \in BuilderFieldNames : \E v \in FieldValues(f) : BuilderSetter(s, f, v)
    \/ \E s \in EpSends : BuilderBuild(s)
    \/ \E s \in EpSends :
           Api_post_build_status(s, "PROJECT_KEY", "COMMIT_ID", "REPOSITORY_SLUG", "KEY", "URL")
    \/ \E s \in EpSends, f \in OptionalNames("BuildStatusPostPayload") :
           BuildStatusPostBuilder_set(s, f, PayloadSample(f))
    \/ \E s \in EpSends, state \in BuildStatusStates : BuildStatusPostBuilder_state(s, state)
    \/ \E s \in EpSends : BuildStatusGet_send(s)
    \/ \E s \in EpSends : PullRequestChangesGet_send(s)
    \/ \E s \in EpSends : BuildStatusPostBuilder_send(s)

BuilderSpec == BuilderInit /\ [][BuilderNext]_vars

\* ---------------------------------------------------------------- requests side by side
\* Two endpoint requests of one caller, created and sent in any order around
\* replacements of the transport of the caller's client.
CopySends == {1, 2}
CopyStatuses == {200, 404}
CopyTexts == {<<>>, <<"B">>}

CopyInit ==
    /\ client \in [base_path : BasePaths, api_token : ApiTokens, http_client : {"reqwest"}]
    /\ pc = [s \in CopySends |-> "idle"]
    /\ api_request = [s \in CopySends |-> ""]
    /\ req = [s \in CopySends |-> NoReq]
    /\ status = [s \in CopySends |-> 0]
    /\ read = [s \in CopySends |-> NotRead]
    /\ outcome = [s \in CopySends |-> NoOutcome]
    /\ calls = [s \in CopySends |-> NoCalls]
    /\ endpoint = [s \in CopySends |-> NoEndpoint]
    /\ serde = NoSerde

CopyNext ==
    \/ \E h \in HttpClients : with_http_client(h)
    \/ \E s \in CopySends : Api_build_status_get(s, "PROJECT_KEY", "COMMIT_ID", "REPOSITORY_SLUG")
    \/ \E s \in CopySends : BuilderBuild(s)
    \/ \E s \in CopySends :
           Api_pull_request_post(s, "PROJECT_KEY", "REPOSITORY_SLUG",
                                 [title |-> "TITLE", description |-> None,
                                  from_ref |-> "FROM_REF", to_ref |-> "TO_REF",
                                  reviewers |-> None])
    \/ \E s \in CopySends : BuildStatusGet_send(s)
    \/ \E s \in CopySends : PullRequestPost_send(s)
    \/ \E s \in CopySends : ExecuteErr(s)
    \/ \E s \in CopySends, st \in CopyStatuses : ExecuteOk(s, st)
    \/ \E s \in CopySends, t \in CopyTexts : TextOk(s, t)
    \/ \E s \in CopySends : TextErr(s)

CopySpec == CopyInit /\ [][CopyNext]_vars

\* ---------------------------------------------------------------- payloads through serde
\* Sub-second parts a DateTime<Utc> given by a caller may have.
Nanos == {0, 500000000}

\* Payload values: every subset of the optional fields set.
PayloadValues(type) ==
    {ValueOf(type, set, nanos) : set \in SUBSET OptionalNames(type), nanos \in Nanos}

\* JSON documents as the server sends them: the required keys and any subset
\* of the optional keys, timestamps as whole seconds.
Fixtures(type) ==
    {LET full == serialize(type, ValueOf(type, OptionalNames(type), 0))
         required == DOMAIN full \ OptionalKeys(type)
     IN [k \in required \cup keys |-> full[k]] : keys \in SUBSET OptionalKeys(type)}

\* A payload value built by the caller, or a JSON document received; no send
\* is involved.
SerdeInit ==
    /\ client \in [base_path : {<<"http://", "host", "/rest">>}, api_token : {<<"TOKEN">>},
                   http_client : {"reqwest"}]
    /\ pc = [s \in EpSends |-> "idle"]
    /\ api_request = [s \in EpSends |-> ""]
    /\ req = [s \in EpSends |-> NoReq]
    /\ status = [s \in EpSends |-> 0]
    /\ read = [s \in EpSends |-> NotRead]
    /\ outcome = [s \in EpSends |-> NoOutcome]
    /\ calls = [s \in EpSends |-> NoCalls]
    /\ endpoint = [s \in EpSends |-> NoEndpoint]
    /\ \E type \in SerdeTypes :
         \/ \E v \in PayloadValues(type) :
              serde = [NoSerde EXCEPT !.type = type, !.origin = "value", !.value = Some(v)]
         \/ \E j \in Fixtures(type) :
              serde = [NoSerde EXCEPT !.type = type, !.origin = "fixture", !.json = Some(j)]

\* serde_json::to_string of the caller's value.
SerializeValue ==
    /\ serde.origin = "value" /\ serde.json = None
    /\ serde' = [serde EXCEPT !.json = Some(serialize(serde.type, serde.value[1]))]
    /\ UNCHANGED <<client, pc, api_request, req, status, read, outcome, calls, endpoint>>

\* serde_json::from_str of what to_string produced.
DeserializeBack ==
    /\ serde.origin = "value" /\ serde.json # None
    /\ serde.back = None /\ serde.error = ""
    /\ LET r == deserialize(serde.type, serde.json[1]) IN
       IF r.ok THEN serde' = [serde EXCEPT !.back = Some(r.value)]
       ELSE serde' = [serde EXCEPT !.error = r.msg[1]]
    /\ UNCHANGED <<client, pc, api_request, req, status, read, outcome, calls, endpoint>>

\* serde_json::from_str of a received document.
DeserializeFixture ==
    /\ serde.origin = "fixture" /\ serde.value = None /\ serde.error = ""
    /\ LET r == deserialize(serde.type, serde.json[1]) IN
       IF r.ok THEN serde' = [serde EXCEPT !.value = Some(r.value)]
       ELSE serde' = [serde EXCEPT !.error = r.msg[1]]
    /\ UNCHANGED <<client, pc, api_request, req, status, read, outcome, calls, endpoint>>

\* serde_json::to_string of the value a received document was decoded to.
SerializeBack ==
    /\ serde.origin = "fixture" /\ serde.value # None /\ serde.back = None
    /\ serde' = [serde EXCEPT !.back = Some(serialize(serde.type, serde.value[1]))]
    /\ UNCHANGED <<client, pc, api_request, req, status, read, outcome, calls, endpoint>>

SerdeNext ==
    \/ SerializeValue
    \/ DeserializeBack
    \/ DeserializeFixture
    \/ SerializeBack

SerdeSpec == SerdeInit /\ [][SerdeNext]_vars

\* ---------------------------------------------------------------- claims
\* get or post has returned a value for send s.
Returned(s) == pc[s] = "done"

\* C1: a response with status 401 or 403 makes get and post return
\* Err(Unauthorized) at once: the body is never asked for, so neither its
\* text nor a failure to read it can change the outcome, and the outcome is
\* never HttpClientError.
C1_Unauthorized ==
    \A s \in Sends :
        status[s] \in {401, 403} =>
            /\ Returned(s)
            /\ outcome[s] = Unauthorized
            /\ outcome[s].kind # "HttpClientError"
            /\ calls[s].text = 0
            /\ read[s] = NotRead

C1_Witness ==
    \E s \in Sends :
        /\ Returned(s) /\ status[s] = 403 /\ req[s].method = "POST"
        /\ outcome[s] = Unauthorized

\* C2: for a status in [400,600) other than 401 and 403 the returned error is
\* HttpClientError (4xx) or HttpServerError (5xx), carries exactly the status
\* of the response and exactly the text that was read as the response body.
C2_HttpError ==
    \A s \in Sends :
        (Returned(s) /\ (Is4xx(status[s]) \/ Is5xx(status[s])) /\ status[s] \notin {401, 403}) =>
            /\ outcome[s].kind = (IF Is4xx(status[s]) THEN "HttpClientError" ELSE "HttpServerError")
            /\ outcome[s].status = status[s]
            /\ read[s].st = "ok" => outcome[s].text = read[s].text

C2_Witness ==
    \E s \in Sends :
        /\ Returned(s) /\ status[s] = 404 /\ read[s] = ReadOk(<<"x">>)
        /\ outcome[s] = HttpClientError(404, <<"x">>)

\* C3: a 2xx response whose body is the empty text makes get and post return
\* Ok(None); the decoder is not called and no DeserializationError results.
C3_EmptyBody ==
    \A s \in Sends :
        (Returned(s) /\ Is2xx(status[s]) /\ read[s] = ReadOk(<<>>)) =>
            /\ outcome[s] = OkNone
            /\ outcome[s].kind # "DeserializationError"
            /\ calls[s].from_str = 0

C3_Witness ==
    \E s \in Sends :
        /\ Returned(s) /\ status[s] = 204 /\ read[s] = ReadOk(<<>>)
        /\ outcome[s] = OkNone

\* C4: a 2xx response with a non-empty body is decoded as the Output type of
\* the request's endpoint: Ok(Some(value)) with a value of that type when the
\* decoder accepts the text, Err(DeserializationError) with the decoder's
\* message when it does not.
C4_Decode ==
    \A s \in Sends :
        (Returned(s) /\ Is2xx(status[s]) /\ read[s].st = "ok" /\ Len(read[s].text) > 0) =>
            LET data == from_str(api_request[s], read[s].text) IN
            /\ calls[s].from_str = 1
            /\ data.ok => /\ outcome[s] = OkSome(data.value)
                          /\ outcome[s].value = Output(api_request[s])
            /\ ~data.ok => outcome[s] = DeserializationError(data.msg)
            /\ outcome[s].kind = "OkSome" <=>
                   (SkipWs(read[s].text) # <<>>
                    /\ Head(SkipWs(read[s].text)) = DocOf(Output(api_request[s]))
                    /\ SkipWs(Tail(SkipWs(read[s].text))) = <<>>)

C4_Witness ==
    \E s \in Sends :
        /\ Returned(s) /\ status[s] = 200 /\ api_request[s] = "BuildStatusGet"
        /\ read[s] = ReadOk(<<"B">>)
        /\ outcome[s] = OkSome("BuildStatus")

\* C5: a status that is not 2xx, 4xx or 5xx makes get and post return
\* Err(UnexpectedResponse) carrying that status and a text that contains the
\* text read as the response body.
C5_Unexpected ==
    \A s \in Sends :
        (Returned(s) /\ status[s] # 0
            /\ ~Is2xx(status[s]) /\ ~Is4xx(status[s]) /\ ~Is5xx(status[s])) =>
            /\ outcome[s].kind = "UnexpectedResponse"
            /\ outcome[s].status = status[s]
            /\ read[s].st = "ok" => Contains(outcome[s].text, read[s].text)

C5_Witness ==
    \E s \in Sends :
        /\ Returned(s) /\ status[s] = 300 /\ read[s] = ReadOk(<<"x">>)
        /\ outcome[s].kind = "UnexpectedResponse" /\ outcome[s].status = 300
        /\ Contains(outcome[s].text, <<"x">>)

\* C6: when the transport fails to send (no response, so no status), get and
\* post return Err(RequestError) and the send has classified no status, read
\* no body and decoded nothing.
C6_TransportFailure ==
    \A s \in Sends :
        (Returned(s) /\ status[s] = 0) =>
            /\ outcome[s] = RequestError
            /\ calls[s].classify = 0
            /\ calls[s].text = 0
            /\ calls[s].from_str = 0
            /\ read[s] = NotRead

C6_Witness ==
    \E s \in Sends :
        /\ Returned(s) /\ status[s] = 0 /\ calls[s].execute = 1
        /\ outcome[s] = RequestError

\* The request of a client cannot be constructed, for any uri.
Unconstructible(c) ==
    \A uri \in Uris : ~build(c, "GET", uri, {}, <<>>).ok

\* C7: when the request cannot be constructed, a started send has returned
\* Err(RequestError) as a value (it has not panicked).
C7_ConstructionFailure ==
    \A s \in Sends :
        (pc[s] # "idle" /\ Unconstructible(client)) =>
            (Returned(s) /\ outcome[s] = RequestError)

\* C8: when a response was received and reading its body failed, the outcome
\* is Err(ResponseError) and no other kind.
C8_ResponseError ==
    \A s \in Sends :
        (Returned(s) /\ read[s] = ReadErr) => outcome[s] = ResponseError

\* C9: a send that has ended has exactly one outcome of the closed set, and a
\* send that has not ended has none.
C9_ClosedOutcome ==
    \A s \in Sends :
        /\ pc[s] \in {"done", "panicked"} => outcome[s].kind \in OutcomeKinds
        /\ pc[s] \in {"idle", "execute", "text", "abandoned"} => outcome[s] = NoOutcome

\* C10: every send that was started and is not abandoned eventually returns
\* an outcome, given a transport that eventually answers.
C10_Completes ==
    \A s \in Sends :
        (pc[s] # "idle") ~> (pc[s] = "abandoned" \/ (Returned(s) /\ outcome[s].kind \in OutcomeKinds))


\* A step of send s: every step of get/post moves the send's position.
SendStep(s) == pc'[s] # pc[s]

\* The send is over: it returned, panicked or was abandoned.
Ended(s) == pc[s] \in {"done", "panicked", "abandoned"}

\* C11: a send hands at most one request to the transport, and once it is
\* over (whatever its outcome) it never hands over another.
C11_NoRetry ==
    [][\A s \in Sends :
          /\ calls'[s].execute <= 1
          /\ Ended(s) => (calls'[s].execute = calls[s].execute /\ pc'[s] = pc[s])]_vars

C11_Witness ==
    \E s \in Sends :
        /\ Returned(s) /\ status[s] = 500 /\ outcome[s].kind = "HttpServerError"
        /\ calls[s].execute = 1

\* C12: no step of a send changes the client (base path, credential,
\* transport), whether the step returns an outcome or abandons the send.
C12_ClientUnchanged ==
    [][\A s \in Sends : SendStep(s) => client' = client]_vars

C12_Witness ==
    \E s \in Sends :
        /\ pc[s] = "abandoned" /\ status[s] # 0
        /\ req[s].authorization = <<"Bearer ">> \o client.api_token
        /\ client.http_client = "reqwest"


\* The outcome of a send that runs alone and whose transport fails (st = 0)
\* or answers with status st and body read rd.
Alone(T, st, rd) == IF st = 0 THEN RequestError ELSE process_response(T, st, rd)

\* C13: with sends running concurrently against one client, a step of one
\* send leaves the state of every other send as it was, and a send that
\* returns does so with the outcome it would have alone with the response to
\* its own request.
C13_Independent ==
    [][\A s \in ConcSends :
          SendStep(s) =>
            /\ \A o \in ConcSends \ {s} :
                  /\ pc'[o] = pc[o] /\ api_request'[o] = api_request[o]
                  /\ req'[o] = req[o] /\ status'[o] = status[o]
                  /\ read'[o] = read[o] /\ outcome'[o] = outcome[o]
                  /\ calls'[o] = calls[o]
            /\ pc'[s] = "done" =>
                  outcome'[s] = Alone(api_request'[s], status'[s], read'[s])]_vars

C13_Witness ==
    \E s \in ConcSends, o \in ConcSends :
        /\ s # o
        /\ pc[s] = "text" /\ status[s] = 200
        /\ Returned(o) /\ status[o] = 404 /\ read[o] = ReadOk(<<"x">>)
        /\ outcome[o] = HttpClientError(404, <<"x">>)

\* Sends s and o are sends of the same built request.
SameRequest(s, o) ==
    /\ s # o
    /\ pc[s] \notin {"idle", "panicked"} /\ pc[o] \notin {"idle", "panicked"}
    /\ api_request[s] = api_request[o] /\ req[s] = req[o]

\* C20: when one built request is sent more than once, every send hands a
\* request of its own to the transport, and a send that returns does so with
\* the outcome that belongs to its own response, whatever the response or the
\* outcome of the other send was.
C20_NoCaching ==
    \A s \in ConcSends, o \in ConcSends :
        SameRequest(s, o) =>
            /\ calls[s].execute = 1
            /\ Returned(s) => outcome[s] = Alone(api_request[s], status[s], read[s])
            /\ (Returned(s) /\ Returned(o) /\ status[s] = status[o] /\ read[s] = read[o])
                   => outcome[s] = outcome[o]

C20_Witness ==
    \E s \in ConcSends, o \in ConcSends :
        /\ SameRequest(s, o) /\ Returned(s) /\ Returned(o)
        /\ api_request[s] = "BuildStatusGet"
        /\ outcome[o] = HttpServerError(500, <<>>)
        /\ outcome[s] = OkSome("BuildStatus")
        /\ calls[s].execute = 1 /\ calls[o].execute = 1

\* The request of send s has been handed to the transport.
Issued(s) == calls[s].execute >= 1

\* C14: every HTTP request issued by an endpoint's send carries
\* Authorization: Bearer <api_token of the client> and
\* Content-Type: application/json when it is handed to the transport.
C14_Headers ==
    \A s \in EpSends :
        Issued(s) =>
            /\ req[s].authorization = <<"Bearer ">> \o client.api_token
            /\ req[s].content_type = "application/json"

\* C15: the payload of the request issued by post for pull-request creation
\* is exactly the JSON serialisation of the payload the request struct was
\* made with, passed through unchanged, and the request has no query.
C15_PostBody ==
    \A s \in EpSends :
        (Issued(s) /\ endpoint[s].api = "PullRequestPost") =>
            /\ req[s].method = "POST"
            /\ req[s].body = PullRequestPostPayload_to_string(endpoint[s].fields.pull_request[1])
            /\ req[s].query = {}

C15_Witness ==
    \E s \in EpSends :
        /\ Returned(s) /\ endpoint[s].api = "PullRequestPost"
        /\ endpoint[s].fields.pull_request[1].description = Some("DESC")
        /\ endpoint[s].fields.pull_request[1].reviewers = None
        /\ req[s].body = <<"{", "title", "TITLE", "description", "DESC",
                           "fromRef", "FROM_REF", "toRef", "TO_REF", "}">>

\* The name a parameter has in the query string.
WireName(o) ==
    CASE o = "key"           -> "key"
      [] o = "since_id"      -> "sinceId"
      [] o = "change_scope"  -> "changeScope"
      [] o = "until_id"      -> "untilId"
      [] o = "start"         -> "start"
      [] o = "limit"         -> "limit"
      [] o = "with_comments" -> "withComments"

\* The value of a parameter rendered as text.
AsText(o, v) ==
    CASE o \in {"start", "limit"} -> ToString(v)
      [] o = "with_comments"      -> IF v THEN "true" ELSE "false"
      [] OTHER                    -> v

\* C16: the query of the request a GET endpoint issues holds exactly one pair
\* per optional parameter that was set, under its wire name and with the
\* value rendered as text, no pair for a parameter that was not set, and
\* nothing else.
C16_Query ==
    \A s \in EpSends :
        (Issued(s) /\ endpoint[s].api \in BuilderApis) =>
            /\ \A o \in OptionalFields(endpoint[s].api) :
                 LET pairs == {p \in req[s].query : p[1] = WireName(o)}
                     set == endpoint[s].fields[o]
                 IN IF set = None THEN pairs = {}
                    ELSE pairs = {<<WireName(o), AsText(o, set[1])>>}
            /\ \A p \in req[s].query :
                 \E o \in OptionalFields(endpoint[s].api) : p[1] = WireName(o)

C16_Witness ==
    \E s \in EpSends :
        /\ Returned(s) /\ endpoint[s].api = "PullRequestChangesGet"
        /\ req[s].method = "GET"
        /\ req[s].query = {<<"sinceId", "SINCE_ID">>, <<"changeScope", "SCOPE">>,
                           <<"untilId", "UNTIL_ID">>, <<"start", "1">>,
                           <<"limit", "10">>, <<"withComments", "true">>}

\* C17: build() on a builder with a required field never set ends in the
\* construction error, with no request struct to send and no HTTP request
\* issued; with every required field set it ends in the request struct,
\* whichever optional parameters were set.
C17_BuildChecked ==
    \A s \in EpSends :
        endpoint[s].api \in BuilderApis =>
            LET missing == {f \in Range(RequiredFields(endpoint[s].api)) :
                               endpoint[s].fields[f] = None}
            IN /\ endpoint[s].stage = "error" =>
                    /\ missing # {}
                    /\ endpoint[s].error \in missing
                    /\ pc[s] = "idle" /\ ~Issued(s) /\ req[s] = NoReq
               /\ endpoint[s].stage = "built" => missing = {}

C17_Witness ==
    \E s \in EpSends :
        /\ endpoint[s].api = "PullRequestChangesGet" /\ endpoint[s].stage = "error"
        /\ endpoint[s].fields.client # None
        /\ endpoint[s].fields.project_key = None
        /\ endpoint[s].fields.limit = Some(10)
        /\ endpoint[s].error = "project_key"

\* C18: a 2xx response to the build-status GET whose state string is not a
\* recognised build state is still decoded: send returns Ok(Some(value)),
\* not DeserializationError.
C18_UnknownState ==
    \A s \in EpSends :
        (Returned(s) /\ api_request[s] = "BuildStatusGet" /\ Is2xx(status[s])
           /\ read[s] = ReadOk(<<"U">>)) =>
            outcome[s] = OkSome("BuildStatus")

\* The success-or-error kind of a returned value.
Classified(o) == IF o.kind \in {"OkSome", "OkNone", "OkUnit"} THEN "success" ELSE o.kind

\* The one classification of a status.
Policy(st) ==
    IF Is2xx(st) THEN "success"
    ELSE IF st \in {401, 403} THEN "Unauthorized"
    ELSE IF Is4xx(st) THEN "HttpClientError"
    ELSE IF Is5xx(st) THEN "HttpServerError"
    ELSE "UnexpectedResponse"

\* C19: whichever endpoint issued the request, a response with a readable
\* empty (or unread) body is classified by its status alone and by the same
\* policy; in particular 200, 201 and 204 are a success for every endpoint.
C19_OnePolicy ==
    \A s \in EpSends :
        (Returned(s) /\ status[s] # 0 /\ read[s] \in {NotRead, ReadOk(<<>>)}) =>
            Classified(outcome[s]) = Policy(status[s])

\* C26: the kind of a returned outcome fixes the status behind it: Ok(Some),
\* Ok(None), DeserializationError and ResponseError only for 2xx; Unauthorized
\* only for 401/403; HttpClientError only with a carried 4xx other than
\* 401/403; HttpServerError only with a carried 5xx; UnexpectedResponse only
\* with a carried status outside 2xx, 4xx and 5xx; RequestError only when no
\* response was received.  The carried status is the status of the response.
C26_KindFixesStatus ==
    \A s \in Sends :
        Returned(s) =>
            LET k == outcome[s].kind IN
            /\ k \in {"OkSome", "OkNone", "DeserializationError", "ResponseError"}
                  => Is2xx(status[s])
            /\ k = "Unauthorized" => status[s] \in {401, 403}
            /\ k = "HttpClientError" =>
                  /\ outcome[s].status = status[s]
                  /\ Is4xx(outcome[s].status) /\ outcome[s].status \notin {401, 403}
            /\ k = "HttpServerError" =>
                  outcome[s].status = status[s] /\ Is5xx(outcome[s].status)
            /\ k = "UnexpectedResponse" =>
                  /\ outcome[s].status = status[s]
                  /\ ~Is2xx(outcome[s].status) /\ ~Is4xx(outcome[s].status)
                  /\ ~Is5xx(outcome[s].status)
            /\ k = "RequestError" => status[s] = 0 /\ read[s] = NotRead

C26_Witness ==
    \E s \in Sends :
        /\ Returned(s) /\ status[s] = 599
        /\ outcome[s].kind = "HttpServerError" /\ outcome[s].status = 599

\* C27: for a status that is not 2xx and not 401/403, a failed body read
\* leaves the error kind of the status, the carried status intact, and the
\* empty string where the body text would be.
C27_ReadFailureKeepsKind ==
    \A s \in Sends :
        (Returned(s) /\ read[s] = ReadErr /\ ~Is2xx(status[s])) =>
            /\ status[s] \notin {401, 403}
            /\ outcome[s] =
                 (IF Is4xx(status[s]) THEN HttpClientError(status[s], <<>>)
                  ELSE IF Is5xx(status[s]) THEN HttpServerError(status[s], <<>>)
                  ELSE UnexpectedResponse(status[s],
                           <<"Unexpected Response [", ToString(status[s]), "]: ">>))

C27_Witness ==
    \E s \in Sends :
        /\ Returned(s) /\ status[s] = 500 /\ read[s] = ReadErr
        /\ outcome[s] = HttpServerError(500, <<>>)

\* C28: Ok(None) is returned only for a 2xx status with a body text of
\* length zero; a 2xx body of any other length, whitespace only included, is
\* handed to the decoder once and yields Ok(Some) or DeserializationError.
C28_NoneOnlyForEmpty ==
    \A s \in Sends :
        Returned(s) =>
            /\ outcome[s].kind = "OkNone" =>
                  Is2xx(status[s]) /\ read[s] = ReadOk(<<>>)
            /\ (Is2xx(status[s]) /\ read[s].st = "ok" /\ Len(read[s].text) > 0) =>
                  /\ outcome[s].kind \in {"OkSome", "DeserializationError"}
                  /\ calls[s].from_str = 1

C28_Witness ==
    \E s \in Sends :
        /\ Returned(s) /\ status[s] = 200 /\ read[s] = ReadOk(<<" ", " ">>)
        /\ outcome[s].kind = "DeserializationError"

\* Every optional field of the value is Some / every key of the type is in
\* the document.
FullyPopulated(type, v) == \A n \in OptionalNames(type) : v[n] # None
ServerShaped(type, j) == OptionalKeys(type) \subseteq DOMAIN j

\* C22: for every payload type, a fully populated value that is serialised
\* and then deserialised comes back equal to the original, and a document
\* with every key of the type that is deserialised and then serialised
\* comes back as the same JSON.
C22_RoundTrip ==
    /\ (serde.origin = "value" /\ FullyPopulated(serde.type, serde.value[1])
          /\ (serde.back # None \/ serde.error # "")) =>
            serde.error = "" /\ serde.back = serde.value
    /\ (serde.origin = "fixture" /\ ServerShaped(serde.type, serde.json[1])
          /\ (serde.value # None \/ serde.error # "")) =>
            /\ serde.error = ""
            /\ serde.back # None => serde.back = serde.json

\* C23: the serialised JSON of a payload value has no key for an optional
\* field that is None, and has the key of every required field and of every
\* optional field that is Some.
C23_OmitsUnset ==
    (serde.origin = "value" /\ serde.json # None) =>
        \A d \in FieldSet(serde.type) :
            d.key \in DOMAIN serde.json[1]
                <=> (~d.optional \/ serde.value[1][d.name] # None)

C23_Witness ==
    /\ serde.origin = "value" /\ serde.type = "PullRequestPostPayload"
    /\ serde.value[1].description = None /\ serde.value[1].reviewers = None
    /\ serde.json # None
    /\ DOMAIN serde.json[1] = {"title", "fromRef", "toRef"}

\* C24: for both build-status types, a document with the keys key, state and
\* url and any subset of the optional keys deserialises, each omitted
\* optional field (timestamps included) being None.
C24_OptionalKeysOmitted ==
    (serde.origin = "fixture" /\ serde.type \in {"BuildStatus", "BuildStatusPostPayload"}
       /\ (serde.value # None \/ serde.error # "")) =>
        /\ serde.error = ""
        /\ \A d \in FieldSet(serde.type) :
             (d.optional /\ d.key \notin DOMAIN serde.json[1]) =>
                 serde.value[1][d.name] = None

\* The path each ApiRequest endpoint asks for when its path parameters are
\* the project key PROJECT_KEY, the repository slug REPOSITORY_SLUG, the
\* commit id COMMIT_ID and the pull request id PR_ID.
PathTemplate(api) ==
    CASE api = "BuildStatusGet" ->
           <<"api/latest/projects/", "PROJECT_KEY", "/repos/", "REPOSITORY_SLUG",
             "/commits/", "COMMIT_ID", "/builds">>
      [] api = "PullRequestChangesGet" ->
           <<"api/latest/projects/", "PROJECT_KEY", "/repos/", "REPOSITORY_SLUG",
             "/pull-requests/", "PR_ID", "/changes">>
      [] api = "PullRequestPost" ->
           <<"api/latest/projects/", "PROJECT_KEY", "/repos/", "REPOSITORY_SLUG",
             "/pull-requests">>

C21_ClientImmutable ==
    [][/\ client'.base_path = client.base_path
       /\ client'.api_token = client.api_token
       /\ client' # client =>
            /\ client'.http_client # client.http_client
            /\ UNCHANGED <<pc, api_request, req, status, read, outcome, calls,
                           endpoint, serde>>]_vars

C21_Witness ==
    /\ client.http_client = "custom"
    /\ client.base_path = <<"http://", "host", "/rest">>
    /\ client.api_token = <<"TOKEN">>
    /\ \E s \in EpSends : Returned(s)

\* The query a GET request struct with these fields stands for.
QueryOf(api, f) ==
    {<<WireName(o), AsText(o, f[o][1])>> : o \in {o \in OptionalFields(api) : f[o] # None}}

\* C29: a request depends only on the last value given to each field. A
\* setter of a builder changes the one field it names to the value given,
\* whether the field was set before or not, and leaves every other field as
\* it was (so setters of distinct fields commute); build() keeps the values;
\* the request handed to the transport is made of the values the fields hold
\* then. The build-status POST builder starts with state Unknown and no
\* optional field, each of its setters changes that one field of the payload
\* only, and the body carries the state of the last state_* call.
C29_LastValueWins ==
    [][\A s \in EpSends :
        LET e == endpoint[s]
            n == endpoint'[s]
        IN
        /\ (e.stage = "builder" /\ n.stage = "builder" /\ n # e) =>
              \E f \in BuilderFieldNames : \E v \in FieldValues(f) :
                  n = [e EXCEPT !.fields[f] = Some(v)]
        /\ (e.stage = "builder" /\ n.stage = "built") =>
              /\ n.api = e.api
              /\ n.fields = e.fields
        /\ (e.stage = "none" /\ n.api = "BuildStatusPostBuilder") =>
              /\ n.fields.build_status[1].state = "UNKNOWN"
              /\ \A f \in OptionalNames("BuildStatusPostPayload") :
                     n.fields.build_status[1][f] = None
        /\ (e.api = "BuildStatusPostBuilder" /\ n # e) =>
              LET p == e.fields.build_status[1]
                  q == n.fields.build_status[1]
              IN /\ n = [e EXCEPT !.fields.build_status = Some(q)]
                 /\ \/ \E st \in BuildStatusStates : q = [p EXCEPT !.state = st]
                    \/ \E f \in OptionalNames("BuildStatusPostPayload") :
                          /\ q[f] # None
                          /\ q = [p EXCEPT ![f] = q[f]]
        /\ (req'[s] # req[s] /\ e.api \in BuilderApis) =>
              /\ n = e
              /\ req'[s].query = QueryOf(e.api, e.fields)
        /\ (req'[s] # req[s] /\ e.api = "BuildStatusPostBuilder") =>
              /\ n = e
              /\ Contains(req'[s].body, <<"state", e.fields.build_status[1].state>>)
              /\ \A d \in FieldSet("BuildStatusPostPayload") :
                    d.optional =>
                      (Contains(req'[s].body, <<d.key>>)
                          <=> e.fields.build_status[1][d.name] # None)
      ]_vars

C29_Witness ==
    \E s \in EpSends :
        /\ endpoint[s].api = "BuildStatusPostBuilder" /\ Issued(s)
        /\ endpoint[s].fields.build_status[1].state = "FAILED"
        /\ endpoint[s].fields.build_status[1].description # None
        /\ endpoint[s].fields.build_status[1].name = None
        /\ Contains(req[s].body, <<"state", "FAILED">>)
        /\ Contains(req[s].body, <<"description">>)

\* What belongs to the endpoint request in slot s.
Slot(s) == <<endpoint[s], pc[s], api_request[s], req[s], status[s], read[s],
             outcome[s], calls[s]>>

\* C30: an endpoint request holds its own copy of the client, taken when the
\* request was created. Once a request exists no step changes the base
\* path, the credential or the transport of its copy; a replacement of the
\* transport of the caller's client, and every step of another request,
\* leaves the request wholly as it was; and the HTTP request it hands over
\* is built from the copy: the URL starts with the copy's base path, the
\* Authorization carries the copy's token and the transport is the copy's.
C30_OwnCopy ==
    [][\A s \in CopySends :
        LET e == endpoint[s]
            n == endpoint'[s]
        IN
        /\ e.stage = "built" =>
              /\ n.stage = "built"
              /\ n.fields.client = e.fields.client
        /\ (e.stage = "built" /\
              (client' # client \/ \E t \in CopySends \ {s} : Slot(t)' # Slot(t))) =>
              Slot(s)' = Slot(s)
        /\ req'[s] # req[s] =>
              LET c == e.fields.client[1] IN
              /\ req'[s].transport = c.http_client
              /\ req'[s].authorization = <<"Bearer ">> \o c.api_token
              /\ SubSeq(req'[s].url, 1, Len(c.base_path)) = c.base_path
      ]_vars

\* A request created before the transport was replaced went out on the
\* transport it was created with, next to one created after that went out
\* on the new one.
C30_Witness ==
    \E s, t \in CopySends :
        /\ client.http_client = "custom"
        /\ Returned(s) /\ req[s].transport = "reqwest"
        /\ endpoint[s].fields.client[1].http_client = "reqwest"
        /\ Issued(t) /\ req[t].transport = "custom"

====
